---- MODULE Spec2Model ----
(***************************************************************************)
(* The barcode API endpoints of InvenTree                                  *)
(* (src/InvenTree/plugin/base/barcodes/api.py): BarcodeScan, BarcodeAssign,*)
(* BarcodeUnassign and BarcodePOReceive, each a `post` handler run by a    *)
(* server worker.                                                          *)
(*                                                                         *)
(* Python values are modelled as follows.  A dict is a function whose      *)
(* domain is its set of keys.  An optional dict (a plugin's scan result)   *)
(* is the empty set for None and {d} for the dict d.  A raised exception   *)
(* or a returned Response is a record [kind, body].                        *)
(***************************************************************************)
EXTENDS Naturals, Sequences, FiniteSets, TLC

\* Primary keys a request may name are "1" .. ToString(MaxPk).
MaxPk == 2

----------------------------------------------------------------------------
\* Python dicts and None

EmptyDict == <<>>

Put(d, k, v) == (k :> v) @@ d

Has(d, k) == k \in DOMAIN d

None == {}

Some(d) == {d}

TheDict(o) == CHOOSE d \in o : TRUE

\* data.get(key, None) for a string-valued key
NoneStr == "None"

DictGet(d, k) == IF Has(d, k) THEN d[k] ELSE NoneStr

\* Falsy with `is None` for `not`: the empty string passes
FalsyOnlyNone(v) == v = NoneStr

\* `not value` for a string or None
Falsy(v) == v \in {NoneStr, ""}

----------------------------------------------------------------------------
\* The collaborators: hashing, the plugin registry, the database models

Workers == {"w1", "w2"}

Payloads == {"ABC123", "XYZ789"}

\* hash_barcode: an MD5 digest of the payload (docstring of BarcodeScan)
hash_barcode(barcode_data) == <<"md5", barcode_data>>

\* the barcode_hash field of an instance that has no barcode assigned
NoHash == <<>>

\* registry.with_mixin('barcode'): the builtin plugins are loaded first
BarcodePlugins ==
    << [name |-> "InvenTreeBarcode", builtin |-> TRUE],
       [name |-> "SupplierA", builtin |-> TRUE],
       [name |-> "SupplierB", builtin |-> TRUE],
       [name |-> "CustomBarcode", builtin |-> FALSE] >>

with_mixin(builtin) ==
    SelectSeq(BarcodePlugins, LAMBDA p : (~builtin) \/ p.builtin)

ExternalPlugins == {"SupplierA", "SupplierB", "CustomBarcode"}

ScanKinds == {"none", "error", "match"}

\* InvenTreeInternalBarcodePlugin.get_supported_barcode_models(), in order;
\* table is f"{app_label}_{model_name}"
SupportedModels ==
    << [label |-> "part", table |-> "part_part"],
       [label |-> "stockitem", table |-> "stock_stockitem"] >>

Labels == {SupportedModels[i].label : i \in 1..Len(SupportedModels)}

\* the rows of each model's table: one instance each, with pk 1
ExistingPks == {"1"}

Instances == Labels \X ExistingPks

IntKeys == {ToString(i) : i \in 1..MaxPk}

MalformedKey == "abc"

Keys == IntKeys \cup {MalformedKey}

\* model.objects.get(pk=key)
objects_get(label, key) ==
    IF key \notin IntKeys THEN "ValueError"
    ELSE IF key \in ExistingPks THEN "instance"
    ELSE "DoesNotExist"

Users == {"alice", "bob"}

\* RuleSet.check_table_permission(user, table, "change")
check_table_permission(user, table) ==
    \/ user = "alice"
    \/ user = "bob" /\ table = "stock_stockitem"

----------------------------------------------------------------------------
VARIABLES
    workers,        \* the server workers that handle requests
    plugin_scan,    \* what each external plugin's scan() returns: None, an error, a match
    receive_item,   \* what each supplier plugin's scan_receive_item() returns
    barcode_hash,   \* the barcode_hash field of every instance
    pc,             \* each worker's position in the view it runs
    request,        \* each worker's request: view, data, user
    instance,       \* BarcodeAssign/BarcodeUnassign: the instance looked up
    response,       \* each worker's outcome: a Response or a raised error
    calls           \* each worker's calls into collaborators, in order

vars == <<workers, plugin_scan, receive_item, barcode_hash, pc, request, instance,
          response, calls>>

NoRequest == [view |-> "none", data |-> EmptyDict, user |-> "none"]

NoInstance == <<"none", "0">>

NoResponse == [kind |-> "none", body |-> EmptyDict]

Response(body) == [kind |-> "Response", body |-> body]

ValidationError(body) == [kind |-> "ValidationError", body |-> body]

PermissionDenied(body) == [kind |-> "PermissionDenied", body |-> body]

----------------------------------------------------------------------------
\* Plugin.scan(barcode_data)

\* the builtin InvenTreeBarcode plugin resolves a payload whose hash is
\* assigned to an instance of a supported model
InternalScan(barcode_data) ==
    LET hit(i) == \E pk \in ExistingPks :
                     barcode_hash[<<SupportedModels[i].label, pk>>]
                        = hash_barcode(barcode_data)
        found == {i \in 1..Len(SupportedModels) : hit(i)}
    IN  IF found = {} THEN None
        ELSE LET i == CHOOSE j \in found : \A k \in found : j <= k
                 label == SupportedModels[i].label
                 pk == CHOOSE k \in ExistingPks :
                          barcode_hash[<<label, k>>] = hash_barcode(barcode_data)
             IN  Some(Put(EmptyDict, label, [pk |-> pk]))

ExternalError(name) ==
    CASE name = "SupplierA" -> Put(EmptyDict, "error", "Invalid SupplierA barcode")
      [] name = "SupplierB" -> Put(EmptyDict, "error", "Invalid SupplierB barcode")
      [] name = "CustomBarcode" ->
            Put(Put(EmptyDict, "error", "Custom plugin failed"), "plugin", "Spoofed")

\* a plugin's result may hold any fields, also those the view sets itself
ExternalMatch(name) ==
    CASE name = "SupplierA" -> Put(EmptyDict, "supplierpart", [pk |-> "7"])
      [] name = "SupplierB" -> Put(EmptyDict, "supplierpart", [pk |-> "8"])
      [] name = "CustomBarcode" ->
            Put(Put(Put(Put(EmptyDict, "custom", [pk |-> "9"]),
                            "plugin", "Spoofed"),
                        "barcode_data", "stale"),
                    "barcode_hash", hash_barcode("stale"))

scan(plugin, barcode_data) ==
    IF plugin.name = "InvenTreeBarcode" THEN InternalScan(barcode_data)
    ELSE CASE plugin_scan[plugin.name] = "none" -> None
           [] plugin_scan[plugin.name] = "error" -> Some(ExternalError(plugin.name))
           [] plugin_scan[plugin.name] = "match" -> Some(ExternalMatch(plugin.name))

----------------------------------------------------------------------------
\* BarcodeScan.post

\* ScanStep without the `break`: the loop runs on after a match
ScanStepNoBreak(st, current_plugin, result) ==
    LET called == [st EXCEPT !.calls = Append(@, <<"scan", current_plugin.name>>)]
    IN  IF result = None THEN called
        ELSE IF Has(TheDict(result), "error")
        THEN IF called.response = EmptyDict
             THEN [called EXCEPT !.plugin = current_plugin.name,
                                 !.response = TheDict(result)]
             ELSE called
        ELSE [called EXCEPT !.plugin = current_plugin.name,
                            !.response = TheDict(result)]

\* ScanStep with `if not response` guarding the match as well: a recorded
\* error is kept
ScanStepKeepsError(st, current_plugin, result) ==
    LET called == [st EXCEPT !.calls = Append(@, <<"scan", current_plugin.name>>)]
    IN  IF result = None THEN called
        ELSE IF called.response # EmptyDict
        THEN [called EXCEPT !.broke = ~Has(TheDict(result), "error")]
        ELSE [called EXCEPT !.plugin = current_plugin.name,
                            !.response = TheDict(result),
                            !.broke = ~Has(TheDict(result), "error")]

\* ScanStep with `plugin = current_plugin` set before the result is looked at
ScanStepRecordsNone(st, current_plugin, result) ==
    LET called == [st EXCEPT !.calls = Append(@, <<"scan", current_plugin.name>>),
                             !.plugin = current_plugin.name]
    IN  IF result = None THEN called
        ELSE IF Has(TheDict(result), "error")
        THEN IF called.response = EmptyDict
             THEN [called EXCEPT !.response = TheDict(result)]
             ELSE called
        ELSE [called EXCEPT !.response = TheDict(result), !.broke = TRUE]

\* ScanStep without `if not response`: a later error replaces a recorded one
ScanStepLastError(st, current_plugin, result) ==
    LET called == [st EXCEPT !.calls = Append(@, <<"scan", current_plugin.name>>)]
    IN  IF result = None THEN called
        ELSE [called EXCEPT !.plugin = current_plugin.name,
                            !.response = TheDict(result),
                            !.broke = ~Has(TheDict(result), "error")]

\* one pass of the body of `for current_plugin in plugins`; st holds the
\* loop's variables plugin and response, the calls made, and whether the
\* loop has ended by `break`
ScanStep(st, current_plugin, result) ==
    LET called == [st EXCEPT !.calls = Append(@, <<"scan", current_plugin.name>>)]
    IN  IF result = None THEN called
        ELSE IF Has(TheDict(result), "error")
        THEN IF called.response = EmptyDict
             THEN [called EXCEPT !.plugin = current_plugin.name,
                                 !.response = TheDict(result)]
             ELSE called
        ELSE [called EXCEPT !.plugin = current_plugin.name,
                            !.response = TheDict(result),
                            !.broke = TRUE]

RECURSIVE ScanLoop(_, _, _, _)
ScanLoop(plugins, i, barcode_data, st) ==
    IF i > Len(plugins) \/ st.broke THEN st
    ELSE ScanLoop(plugins, i + 1, barcode_data,
                  ScanStep(st, plugins[i], scan(plugins[i], barcode_data)))

ScanStart ==
    [plugin |-> NoneStr, response |-> EmptyDict, calls |-> <<>>, broke |-> FALSE]

\* ScanAttach with setdefault: a field the plugin's result holds is kept
ScanAttachKeepsFields(st, barcode_data, hash) ==
    st.response @@ Put(Put(Put(EmptyDict, "plugin", st.plugin),
                           "barcode_data", barcode_data),
                       "barcode_hash", hash)

\* the fields attached to the response after the loop
ScanAttach(st, barcode_data, hash) ==
    Put(Put(Put(st.response, "plugin", st.plugin),
            "barcode_data", barcode_data),
        "barcode_hash", hash)

ScanFinish(st, barcode_data, hash) ==
    IF st.plugin = NoneStr
    THEN ValidationError(Put(ScanAttach(st, barcode_data, hash),
                             "error", "No match found for barcode data"))
    ELSE Response(Put(ScanAttach(st, barcode_data, hash),
                      "success", "Match found for barcode data"))

ScanData == {EmptyDict} \cup {Put(EmptyDict, "barcode", b) : b \in Payloads \cup {""}}

CanStart(w) == w \in workers /\ pc[w] \in {"idle", "done"}

BarcodeScan(w, requests) ==
    /\ CanStart(w)
    /\ \E data \in requests, user \in Users :
          LET barcode_data == DictGet(data, "barcode")
              st == ScanLoop(with_mixin(FALSE), 1, barcode_data, ScanStart)
          IN  /\ request' = [request EXCEPT ![w] =
                    [view |-> "BarcodeScan", data |-> data, user |-> user]]
              /\ IF Falsy(barcode_data)
                 THEN /\ response' = [response EXCEPT ![w] = ValidationError(
                            Put(EmptyDict, "barcode", "Missing barcode data"))]
                      /\ calls' = [calls EXCEPT ![w] = <<>>]
                 ELSE /\ response' = [response EXCEPT ![w] =
                            ScanFinish(st, barcode_data, hash_barcode(barcode_data))]
                      /\ calls' = [calls EXCEPT ![w] = st.calls]
    /\ pc' = [pc EXCEPT ![w] = "done"]
    /\ instance' = [instance EXCEPT ![w] = NoInstance]
    /\ UNCHANGED <<workers, plugin_scan, receive_item, barcode_hash>>

----------------------------------------------------------------------------
\* BarcodeAssign.post

Entry(k, v) == IF v = NoneStr THEN EmptyDict ELSE Put(EmptyDict, k, v)

LabelData ==
    {Entry("part", p) @@ Entry("stockitem", s) :
        p \in Keys \cup {NoneStr}, s \in Keys \cup {NoneStr}}

AssignData ==
    {Entry("barcode", b) @@ l : b \in Payloads \cup {"", NoneStr}, l \in LabelData}

\* AssignCheck with `"error" in result` for `result is not None`: only an
\* error ends the call
RECURSIVE AssignCheckOnlyErrors(_, _, _, _)
AssignCheckOnlyErrors(plugins, i, barcode_data, called) ==
    IF i > Len(plugins) THEN [result |-> None, plugin |-> NoneStr, calls |-> called]
    ELSE LET result == scan(plugins[i], barcode_data)
             now == Append(called, <<"scan", plugins[i].name>>)
         IN  IF result # None /\ Has(TheDict(result), "error")
             THEN [result |-> result, plugin |-> plugins[i].name, calls |-> now]
             ELSE AssignCheckOnlyErrors(plugins, i + 1, barcode_data, now)

\* AssignCheck with `"error" not in result` added to the test: a plugin's
\* error is passed over
RECURSIVE AssignCheckOnlyMatches(_, _, _, _)
AssignCheckOnlyMatches(plugins, i, barcode_data, called) ==
    IF i > Len(plugins) THEN [result |-> None, plugin |-> NoneStr, calls |-> called]
    ELSE LET result == scan(plugins[i], barcode_data)
             now == Append(called, <<"scan", plugins[i].name>>)
         IN  IF result # None /\ ~Has(TheDict(result), "error")
             THEN [result |-> result, plugin |-> plugins[i].name, calls |-> now]
             ELSE AssignCheckOnlyMatches(plugins, i + 1, barcode_data, now)

\* the loop over the builtin plugins: the first result that is not None
\* ends the call
RECURSIVE AssignCheck(_, _, _, _)
AssignCheck(plugins, i, barcode_data, called) ==
    IF i > Len(plugins) THEN [result |-> None, plugin |-> NoneStr, calls |-> called]
    ELSE LET result == scan(plugins[i], barcode_data)
             now == Append(called, <<"scan", plugins[i].name>>)
         IN  IF result # None
             THEN [result |-> result, plugin |-> plugins[i].name, calls |-> now]
             ELSE AssignCheck(plugins, i + 1, barcode_data, now)

AssignMatches(chk, barcode_data) ==
    ValidationError(
        Put(Put(Put(TheDict(chk.result), "error", "Barcode matches existing item"),
                "plugin", chk.plugin),
            "barcode_data", barcode_data))

\* lines 118-137: the payload check and the scan by the builtin plugins
AssignScan(w, requests) ==
    /\ CanStart(w)
    /\ \E data \in requests, user \in Users :
          LET barcode_data == DictGet(data, "barcode")
              chk == AssignCheck(with_mixin(TRUE), 1, barcode_data, <<>>)
          IN  /\ request' = [request EXCEPT ![w] =
                    [view |-> "BarcodeAssign", data |-> data, user |-> user]]
              /\ IF Falsy(barcode_data)
                 THEN /\ response' = [response EXCEPT ![w] = ValidationError(
                            Put(EmptyDict, "barcode", "Missing barcode data"))]
                      /\ calls' = [calls EXCEPT ![w] = <<>>]
                      /\ pc' = [pc EXCEPT ![w] = "done"]
                 ELSE IF chk.result # None
                 THEN /\ response' = [response EXCEPT ![w] =
                            AssignMatches(chk, barcode_data)]
                      /\ calls' = [calls EXCEPT ![w] = chk.calls]
                      /\ pc' = [pc EXCEPT ![w] = "done"]
                 ELSE /\ response' = [response EXCEPT ![w] = NoResponse]
                      /\ calls' = [calls EXCEPT ![w] = chk.calls]
                      /\ pc' = [pc EXCEPT ![w] = "assign_lookup"]
    /\ instance' = [instance EXCEPT ![w] = NoInstance]
    /\ UNCHANGED <<workers, plugin_scan, receive_item, barcode_hash>>

\* FirstLabel with the loop running on to the last label in the data
LastLabel(data) ==
    LET present == {i \in 1..Len(SupportedModels) : Has(data, SupportedModels[i].label)}
    IN  IF present = {} THEN 0
        ELSE CHOOSE i \in present : \A j \in present : i >= j

\* the first supported model, in order, whose label is in the data; 0 if none
FirstLabel(data) ==
    LET present == {i \in 1..Len(SupportedModels) : Has(data, SupportedModels[i].label)}
    IN  IF present = {} THEN 0
        ELSE CHOOSE i \in present : \A j \in present : i <= j

NoMatchingInstance(label) ==
    CASE label = "part" -> "No matching part instance found in database"
      [] label = "stockitem" -> "No matching stockitem instance found in database"

TableOf(label) ==
    LET i == CHOOSE j \in 1..Len(SupportedModels) : SupportedModels[j].label = label
    IN  SupportedModels[i].table

NoPermission(table) ==
    CASE table = "part_part" -> "You do not have the required permissions for part_part"
      [] table = "stock_stockitem" ->
            "You do not have the required permissions for stock_stockitem"

\* AssignLookup with the permission checked before the instance is looked up
AssignLookupChecksFirst(w) ==
    /\ w \in workers /\ pc[w] = "assign_lookup"
    /\ LET data == request[w].data
           i == FirstLabel(data)
           label == SupportedModels[i].label
           got == objects_get(label, data[label])
       IN  IF i = 0
           THEN /\ response' = [response EXCEPT ![w] = ValidationError(
                      Put(EmptyDict, "error",
                          "Missing data: provide one of '['part', 'stockitem']'"))]
                /\ pc' = [pc EXCEPT ![w] = "done"]
                /\ UNCHANGED <<instance, calls>>
           ELSE IF ~check_table_permission(request[w].user, TableOf(label))
           THEN /\ response' = [response EXCEPT ![w] = PermissionDenied(
                      Put(EmptyDict, "error", NoPermission(TableOf(label))))]
                /\ pc' = [pc EXCEPT ![w] = "done"]
                /\ UNCHANGED <<instance, calls>>
           ELSE /\ calls' = [calls EXCEPT ![w] = Append(@, <<"get", label>>)]
                /\ IF got = "instance"
                   THEN /\ instance' = [instance EXCEPT ![w] = <<label, data[label]>>]
                        /\ pc' = [pc EXCEPT ![w] = "assign_permission"]
                        /\ UNCHANGED response
                   ELSE /\ response' = [response EXCEPT ![w] = ValidationError(
                              Put(EmptyDict, "error", NoMatchingInstance(label)))]
                        /\ pc' = [pc EXCEPT ![w] = "done"]
                        /\ UNCHANGED instance
    /\ UNCHANGED <<workers, plugin_scan, receive_item, barcode_hash, request>>

\* AssignLookup with assign_barcode called as soon as the instance is found,
\* before the permission check
AssignLookupAssignsFirst(w) ==
    /\ w \in workers /\ pc[w] = "assign_lookup"
    /\ LET data == request[w].data
           i == FirstLabel(data)
           label == SupportedModels[i].label
           got == objects_get(label, data[label])
       IN  IF i = 0
           THEN /\ response' = [response EXCEPT ![w] = ValidationError(
                      Put(EmptyDict, "error",
                          "Missing data: provide one of '['part', 'stockitem']'"))]
                /\ pc' = [pc EXCEPT ![w] = "done"]
                /\ UNCHANGED <<instance, calls, barcode_hash>>
           ELSE /\ calls' = [calls EXCEPT ![w] = Append(@, <<"get", label>>)]
                /\ IF got = "instance"
                   THEN /\ instance' = [instance EXCEPT ![w] = <<label, data[label]>>]
                        /\ barcode_hash' = [barcode_hash EXCEPT ![<<label, data[label]>>] =
                                                hash_barcode(data["barcode"])]
                        /\ pc' = [pc EXCEPT ![w] = "assign_permission"]
                        /\ UNCHANGED response
                   ELSE /\ response' = [response EXCEPT ![w] = ValidationError(
                              Put(EmptyDict, "error", NoMatchingInstance(label)))]
                        /\ pc' = [pc EXCEPT ![w] = "done"]
                        /\ UNCHANGED <<instance, barcode_hash>>
    /\ UNCHANGED <<workers, plugin_scan, receive_item, request>>

\* lines 141-149 and 176-184: the loop over the supported models up to the
\* lookup of the instance
AssignLookup(w) ==
    /\ w \in workers /\ pc[w] = "assign_lookup"
    /\ LET data == request[w].data
           i == FirstLabel(data)
           label == SupportedModels[i].label
           got == objects_get(label, data[label])
       IN  IF i = 0
           THEN /\ response' = [response EXCEPT ![w] = ValidationError(
                      Put(EmptyDict, "error",
                          "Missing data: provide one of '['part', 'stockitem']'"))]
                /\ pc' = [pc EXCEPT ![w] = "done"]
                /\ UNCHANGED <<instance, calls>>
           ELSE /\ calls' = [calls EXCEPT ![w] = Append(@, <<"get", label>>)]
                /\ IF got = "instance"
                   THEN /\ instance' = [instance EXCEPT ![w] = <<label, data[label]>>]
                        /\ pc' = [pc EXCEPT ![w] = "assign_permission"]
                        /\ UNCHANGED response
                   ELSE /\ response' = [response EXCEPT ![w] = ValidationError(
                              Put(EmptyDict, "error", NoMatchingInstance(label)))]
                        /\ pc' = [pc EXCEPT ![w] = "done"]
                        /\ UNCHANGED instance
    /\ UNCHANGED <<workers, plugin_scan, receive_item, barcode_hash, request>>

\* PermissionStep without the check: the call goes on to the mutation
PermissionStepUnchecked(w, here, next) ==
    /\ w \in workers /\ pc[w] = here
    /\ calls' = [calls EXCEPT ![w] =
          Append(@, <<"check_table_permission", TableOf(instance[w][1])>>)]
    /\ pc' = [pc EXCEPT ![w] = next]
    /\ UNCHANGED <<workers, plugin_scan, receive_item, barcode_hash, request, instance, response>>

\* lines 151-160 (and 232-241): the permission check
PermissionStep(w, here, next) ==
    /\ w \in workers /\ pc[w] = here
    /\ LET table == TableOf(instance[w][1])
       IN  /\ calls' = [calls EXCEPT ![w] = Append(@, <<"check_table_permission", table>>)]
           /\ IF ~check_table_permission(request[w].user, table)
              THEN /\ response' = [response EXCEPT ![w] = PermissionDenied(
                         Put(EmptyDict, "error", NoPermission(table)))]
                   /\ pc' = [pc EXCEPT ![w] = "done"]
              ELSE /\ pc' = [pc EXCEPT ![w] = next]
                   /\ UNCHANGED response
    /\ UNCHANGED <<workers, plugin_scan, receive_item, barcode_hash, request, instance>>

AssignPermission(w) == PermissionStep(w, "assign_permission", "assign_barcode")

\* instance.assign_barcode(barcode_data=..., barcode_hash=...)
assign_barcode(inst, hash) == [barcode_hash EXCEPT ![inst] = hash]

AssignSuccess(label) ==
    CASE label = "part" -> "Assigned barcode to part instance"
      [] label = "stockitem" -> "Assigned barcode to stockitem instance"

\* lines 139 and 162-174: the mutation and the success response
AssignBarcode(w) ==
    /\ w \in workers /\ pc[w] = "assign_barcode"
    /\ LET barcode_data == request[w].data["barcode"]
           hash == hash_barcode(barcode_data)
           label == instance[w][1]
       IN  /\ barcode_hash' = assign_barcode(instance[w], hash)
           /\ calls' = [calls EXCEPT ![w] = Append(@, <<"assign_barcode", label>>)]
           /\ response' = [response EXCEPT ![w] = Response(
                 Put(Put(Put(Put(EmptyDict, "success", AssignSuccess(label)),
                             label, [pk |-> instance[w][2]]),
                         "barcode_data", barcode_data),
                     "barcode_hash", hash))]
    /\ pc' = [pc EXCEPT ![w] = "done"]
    /\ UNCHANGED <<workers, plugin_scan, receive_item, request, instance>>

----------------------------------------------------------------------------
\* BarcodeUnassign.post

UnassignData == LabelData

\* MatchedLabels with a `break` after the first append: later labels are
\* not counted
MatchedLabelsFirst(data) ==
    IF FirstLabel(data) = 0 THEN {} ELSE {FirstLabel(data)}

\* lines 204-208: the supported labels found in the data
MatchedLabels(data) ==
    {i \in 1..Len(SupportedModels) : Has(data, SupportedModels[i].label)}

\* lines 197-230: the check of the labels and the lookup of the instance
UnassignLookup(w, requests) ==
    /\ CanStart(w)
    /\ \E data \in requests, user \in Users :
          LET matched_labels == MatchedLabels(data)
              i == FirstLabel(data)
              label == SupportedModels[i].label
              got == objects_get(label, data[label])
          IN  /\ request' = [request EXCEPT ![w] =
                    [view |-> "BarcodeUnassign", data |-> data, user |-> user]]
              /\ IF Cardinality(matched_labels) = 0
                 THEN /\ response' = [response EXCEPT ![w] = ValidationError(
                            Put(EmptyDict, "error",
                                "Missing data: Provide one of 'part, stockitem'"))]
                      /\ calls' = [calls EXCEPT ![w] = <<>>]
                      /\ pc' = [pc EXCEPT ![w] = "done"]
                      /\ instance' = [instance EXCEPT ![w] = NoInstance]
                 ELSE IF Cardinality(matched_labels) > 1
                 THEN /\ response' = [response EXCEPT ![w] = ValidationError(
                            Put(EmptyDict, "error",
                                "Multiple conflicting fields: 'part, stockitem'"))]
                      /\ calls' = [calls EXCEPT ![w] = <<>>]
                      /\ pc' = [pc EXCEPT ![w] = "done"]
                      /\ instance' = [instance EXCEPT ![w] = NoInstance]
                 ELSE IF got # "instance"
                 THEN /\ response' = [response EXCEPT ![w] = ValidationError(
                            Put(EmptyDict, label, "No match found for provided value"))]
                      /\ calls' = [calls EXCEPT ![w] = <<<<"get", label>>>>]
                      /\ pc' = [pc EXCEPT ![w] = "done"]
                      /\ instance' = [instance EXCEPT ![w] = NoInstance]
                 ELSE /\ response' = [response EXCEPT ![w] = NoResponse]
                      /\ calls' = [calls EXCEPT ![w] = <<<<"get", label>>>>]
                      /\ pc' = [pc EXCEPT ![w] = "unassign_permission"]
                      /\ instance' = [instance EXCEPT ![w] = <<label, data[label]>>]
    /\ UNCHANGED <<workers, plugin_scan, receive_item, barcode_hash>>

UnassignPermission(w) == PermissionStep(w, "unassign_permission", "unassign_barcode")

\* instance.unassign_barcode()
unassign_barcode(inst) == [barcode_hash EXCEPT ![inst] = NoHash]

UnassignSuccess(label) ==
    CASE label = "part" -> "Barcode unassigned from part instance"
      [] label = "stockitem" -> "Barcode unassigned from stockitem instance"

\* UnassignBarcode without the call of unassign_barcode
UnassignBarcodeKeepsHash(w) ==
    /\ w \in workers /\ pc[w] = "unassign_barcode"
    /\ calls' = [calls EXCEPT ![w] = Append(@, <<"unassign_barcode", instance[w][1]>>)]
    /\ response' = [response EXCEPT ![w] = Response(
          Put(EmptyDict, "success", UnassignSuccess(instance[w][1])))]
    /\ pc' = [pc EXCEPT ![w] = "done"]
    /\ UNCHANGED <<workers, plugin_scan, receive_item, barcode_hash, request, instance>>

\* lines 243-248: the mutation and the success response
UnassignBarcode(w) ==
    /\ w \in workers /\ pc[w] = "unassign_barcode"
    /\ barcode_hash' = unassign_barcode(instance[w])
    /\ calls' = [calls EXCEPT ![w] = Append(@, <<"unassign_barcode", instance[w][1]>>)]
    /\ response' = [response EXCEPT ![w] = Response(
          Put(EmptyDict, "success", UnassignSuccess(instance[w][1])))]
    /\ pc' = [pc EXCEPT ![w] = "done"]
    /\ UNCHANGED <<workers, plugin_scan, receive_item, request, instance>>

----------------------------------------------------------------------------
\* BarcodePOReceive.post

\* registry.with_mixin("supplier-barcode"), builtin plugins first
with_supplier_mixin ==
    SelectSeq(BarcodePlugins, LAMBDA p : p.name \in ExternalPlugins)

\* next(filter(lambda plugin: plugin.name == "InvenTreeBarcode", plugins))
internal_barcode_plugin ==
    LET plugins == with_mixin(FALSE)
        named == {i \in 1..Len(plugins) : plugins[i].name = "InvenTreeBarcode"}
    IN  plugins[CHOOSE i \in named : \A j \in named : i <= j]

\* `if result:` for a plugin's result: None and the empty dict are falsy
Truthy(result) == result # None /\ TheDict(result) # EmptyDict

ReceiveError(name) ==
    CASE name = "SupplierA" ->
            Put(EmptyDict, "error", "Failed to find pending line item for supplier part")
      [] name = "SupplierB" ->
            Put(EmptyDict, "error", "Failed to find placed purchase order")
      [] name = "CustomBarcode" ->
            Put(Put(EmptyDict, "error", "Custom receive failed"), "plugin", "Spoofed")

\* a plugin's result may hold any fields, also those the view sets itself
ReceiveMatch(name) ==
    CASE name = "SupplierA" ->
            Put(Put(EmptyDict, "success", "Successfully received purchase order line item"),
                "lineitem", [pk |-> "7"])
      [] name = "SupplierB" ->
            Put(Put(EmptyDict, "action_required", "Further information required"),
                "lineitem", [pk |-> "8"])
      [] name = "CustomBarcode" ->
            Put(Put(Put(Put(EmptyDict, "lineitem", [pk |-> "9"]),
                            "plugin", "Spoofed"),
                        "barcode_data", "stale"),
                    "barcode_hash", hash_barcode("stale"))

\* current_plugin.scan_receive_item(barcode_data, user, purchase_order=...,
\* location=...)
scan_receive_item(plugin, barcode_data) ==
    CASE receive_item[plugin.name] = "none" -> None
      [] receive_item[plugin.name] = "error" -> Some(ReceiveError(plugin.name))
      [] receive_item[plugin.name] = "match" -> Some(ReceiveMatch(plugin.name))

\* PurchaseOrder.objects.filter(pk=key).first()
objects_filter_first(key) ==
    IF key \notin IntKeys THEN "ValueError"
    ELSE IF key \in ExistingPks THEN "instance"
    ELSE "None"

\* an exception the view does not turn into a ValidationError
Raised(exception) == [kind |-> exception, body |-> EmptyDict]

\* AlreadyReceived with the scan by the internal plugin left out
AlreadyReceivedNever(barcode_data) == FALSE

\* lines 305-307: the internal plugin knows the payload
AlreadyReceived(barcode_data) ==
    Truthy(scan(internal_barcode_plugin, barcode_data))

\* lines 316-335: one pass of the body of the loop over the supplier plugins
ReceiveStep(st, current_plugin, result) ==
    LET called == [st EXCEPT !.calls =
                      Append(@, <<"scan_receive_item", current_plugin.name>>)]
    IN  IF result = None THEN called
        ELSE IF Has(TheDict(result), "error")
        THEN IF called.response = EmptyDict
             THEN [called EXCEPT !.plugin = current_plugin.name,
                                 !.response = TheDict(result)]
             ELSE called
        ELSE [called EXCEPT !.plugin = current_plugin.name,
                            !.response = TheDict(result),
                            !.broke = TRUE]

RECURSIVE ReceiveLoop(_, _, _, _)
ReceiveLoop(plugins, i, barcode_data, st) ==
    IF i > Len(plugins) \/ st.broke THEN st
    ELSE ReceiveLoop(plugins, i + 1, barcode_data,
                     ReceiveStep(st, plugins[i],
                                 scan_receive_item(plugins[i], barcode_data)))

\* lines 337-339: the fields attached to the response after the loop
ReceiveAttach(st, barcode_data) ==
    Put(Put(Put(st.response, "plugin", st.plugin),
            "barcode_data", barcode_data),
        "barcode_hash", hash_barcode(barcode_data))

\* ReceiveFinish without the `elif "error" in response` branch
ReceiveFinishNoElif(st, barcode_data) ==
    IF st.plugin = NoneStr
    THEN ValidationError(Put(ReceiveAttach(st, barcode_data),
                             "error", "No match for supplier barcode"))
    ELSE Response(ReceiveAttach(st, barcode_data))

\* lines 341-348
ReceiveFinish(st, barcode_data) ==
    IF st.plugin = NoneStr
    THEN ValidationError(Put(ReceiveAttach(st, barcode_data),
                             "error", "No match for supplier barcode"))
    ELSE IF Has(ReceiveAttach(st, barcode_data), "error")
    THEN ValidationError(ReceiveAttach(st, barcode_data))
    ELSE Response(ReceiveAttach(st, barcode_data))

\* the outcome of the call and the calls made, in order
ReceiveOutcome(data) ==
    LET barcode_data == DictGet(data, "barcode")
        purchase_order_pk == DictGet(data, "purchase_order")
        location_pk == DictGet(data, "location")
        purchase_order == objects_filter_first(purchase_order_pk)
        location == objects_get("stocklocation", location_pk)
        po_calls == IF Falsy(purchase_order_pk) THEN <<>>
                    ELSE << <<"filter", "purchaseorder">> >>
        loc_calls == IF Falsy(location_pk) THEN po_calls
                     ELSE Append(po_calls, <<"get", "stocklocation">>)
        int_calls == Append(loc_calls, <<"scan", "InvenTreeBarcode">>)
        st == ReceiveLoop(with_supplier_mixin, 1, barcode_data,
                          [ScanStart EXCEPT !.calls = int_calls])
    IN  IF Falsy(barcode_data)
        THEN [response |-> ValidationError(
                  Put(EmptyDict, "barcode", "Missing barcode data")),
              calls |-> <<>>]
        ELSE IF ~Falsy(purchase_order_pk) /\ purchase_order = "ValueError"
        THEN [response |-> Raised("ValueError"), calls |-> po_calls]
        ELSE IF ~Falsy(purchase_order_pk) /\ purchase_order = "None"
        THEN [response |-> ValidationError(
                  Put(EmptyDict, "purchase_order", "Invalid purchase order")),
              calls |-> po_calls]
        ELSE IF ~Falsy(location_pk) /\ location # "instance"
        THEN [response |-> Raised(location), calls |-> loc_calls]
        ELSE IF AlreadyReceived(barcode_data)
        THEN [response |-> ValidationError(
                  Put(EmptyDict, "error", "Item has already been received")),
              calls |-> int_calls]
        ELSE [response |-> ReceiveFinish(st, barcode_data), calls |-> st.calls]

\* a reference to a purchase order or a stock location: absent, or a key
RefData(k) == {Entry(k, v) : v \in IntKeys \cup {NoneStr}}

ReceiveData ==
    {Entry("barcode", b) @@ po @@ loc :
        b \in Payloads \cup {"", NoneStr},
        po \in RefData("purchase_order"), loc \in RefData("location")}

BarcodePOReceive(w, requests) ==
    /\ CanStart(w)
    /\ \E data \in requests, user \in Users :
          /\ request' = [request EXCEPT ![w] =
                [view |-> "BarcodePOReceive", data |-> data, user |-> user]]
          /\ response' = [response EXCEPT ![w] = ReceiveOutcome(data).response]
          /\ calls' = [calls EXCEPT ![w] = ReceiveOutcome(data).calls]
    /\ pc' = [pc EXCEPT ![w] = "done"]
    /\ instance' = [instance EXCEPT ![w] = NoInstance]
    /\ UNCHANGED <<workers, plugin_scan, receive_item, barcode_hash>>

----------------------------------------------------------------------------
\* The specifications

PluginTables == [ExternalPlugins -> ScanKinds]

\* a registry whose external plugins recognise no payload
QuietTables == {t \in PluginTables : \A k \in DOMAIN t : t[k] = "none"}

InitState ==
    /\ barcode_hash = [e \in Instances |-> NoHash]
    /\ pc = [w \in Workers |-> "idle"]
    /\ request = [w \in Workers |-> NoRequest]
    /\ instance = [w \in Workers |-> NoInstance]
    /\ response = [w \in Workers |-> NoResponse]
    /\ calls = [w \in Workers |-> <<>>]

\* one worker, any registry: requests are handled one after the other
Init ==
    /\ workers = {"w1"}
    /\ plugin_scan \in PluginTables
    /\ receive_item \in QuietTables
    /\ InitState

Next ==
    \E w \in Workers :
        \/ BarcodeScan(w, ScanData)
        \/ AssignScan(w, AssignData)
        \/ AssignLookup(w)
        \/ AssignPermission(w)
        \/ AssignBarcode(w)
        \/ UnassignLookup(w, UnassignData)
        \/ UnassignPermission(w)
        \/ UnassignBarcode(w)

Spec == Init /\ [][Next]_vars

\* two workers handle requests concurrently; the requests are those that
\* name a payload and one existing instance
ConcInit ==
    /\ workers = Workers
    /\ plugin_scan \in QuietTables
    /\ receive_item \in QuietTables
    /\ InitState

ConcLabelData == {Put(EmptyDict, e[1], e[2]) : e \in Instances}

ConcScanData == {Put(EmptyDict, "barcode", b) : b \in Payloads}

ConcAssignData == {Put(l, "barcode", b) : b \in Payloads, l \in ConcLabelData}

ConcNext ==
    \E w \in Workers :
        \/ BarcodeScan(w, ConcScanData)
        \/ AssignScan(w, ConcAssignData)
        \/ AssignLookup(w)
        \/ AssignPermission(w)
        \/ AssignBarcode(w)
        \/ UnassignLookup(w, ConcLabelData)
        \/ UnassignPermission(w)
        \/ UnassignBarcode(w)

ConcSpec == ConcInit /\ [][ConcNext]_vars

\* one worker and a registry whose supplier plugins answer in any way: the
\* receive endpoint next to the scan and the assignment of a payload to an
\* existing instance
ReceiveInit ==
    /\ workers = {"w1"}
    /\ plugin_scan \in QuietTables
    /\ receive_item \in PluginTables
    /\ InitState

ReceiveScanData == {Entry("barcode", b) : b \in Payloads \cup {"", NoneStr}}

ReceiveAssignData ==
    {Entry("barcode", b) @@ l : b \in Payloads \cup {"", NoneStr}, l \in ConcLabelData}

ReceiveNext ==
    \E w \in Workers :
        \/ BarcodePOReceive(w, ReceiveData)
        \/ BarcodeScan(w, ReceiveScanData)
        \/ AssignScan(w, ReceiveAssignData)
        \/ AssignLookup(w)
        \/ AssignPermission(w)
        \/ AssignBarcode(w)

ReceiveSpec == ReceiveInit /\ [][ReceiveNext]_vars

\* two workers that take requests in turn: a worker takes up or goes on with
\* a call only while the other is between calls
Alone(w) == \A v \in workers \ {w} : pc[v] \in {"idle", "done"}

SeqNext ==
    \E w \in Workers :
        \/ Alone(w) /\ BarcodeScan(w, ConcScanData)
        \/ Alone(w) /\ AssignScan(w, ConcAssignData)
        \/ Alone(w) /\ AssignLookup(w)
        \/ Alone(w) /\ AssignPermission(w)
        \/ Alone(w) /\ AssignBarcode(w)
        \/ Alone(w) /\ UnassignLookup(w, ConcLabelData)
        \/ Alone(w) /\ UnassignPermission(w)
        \/ Alone(w) /\ UnassignBarcode(w)

SeqSpec == ConcInit /\ [][SeqNext]_vars


----------------------------------------------------------------------------
\* What the claims speak of

Chain == with_mixin(FALSE)

BuiltinChain == with_mixin(TRUE)

IsMatch(result) == result # None /\ ~Has(TheDict(result), "error")

IsError(result) == result # None /\ Has(TheDict(result), "error")

Least(S) == CHOOSE i \in S : \A j \in S : i <= j

Payload(w) == DictGet(request[w].data, "barcode")

Body(w) == response[w].body

\* the positions in the chain of the plugins that match, or fail on, the
\* payload of w's request
Matching(w) == {i \in 1..Len(Chain) : IsMatch(scan(Chain[i], Payload(w)))}

Erring(w) == {i \in 1..Len(Chain) : IsError(scan(Chain[i], Payload(w)))}

\* the fields BarcodeScan.post sets itself
Attached == {"plugin", "barcode_data", "barcode_hash", "success"}

\* the response holds the fields of the result of the plugin at position i
HoldsResultOf(w, i) ==
    LET result == TheDict(scan(Chain[i], Payload(w)))
    IN  \A k \in DOMAIN result \ Attached : Has(Body(w), k) /\ Body(w)[k] = result[k]

\* worker w has answered a scan of a payload; with one worker the bindings
\* are still those the scan saw
ScanDone(w) ==
    /\ pc[w] = "done"
    /\ request[w].view = "BarcodeScan"
    /\ ~Falsy(Payload(w))

\* C1: plugins are scanned in chain order, and the first plugin that matches
\* ends the scan: it is the last plugin called, and the response is a success
\* that names it and holds its result.
C1_FirstMatchStops ==
    \A w \in Workers : ScanDone(w) =>
        LET n == IF Matching(w) = {} THEN Len(Chain) ELSE Least(Matching(w))
        IN  /\ calls[w] = [i \in 1..n |-> <<"scan", Chain[i].name>>]
            /\ Matching(w) # {} =>
                  /\ response[w].kind = "Response"
                  /\ Body(w)["plugin"] = Chain[n].name
                  /\ HoldsResultOf(w, n)

C1_Witness ==
    \E w \in Workers :
        /\ ScanDone(w)
        /\ Cardinality(Matching(w)) >= 2
        /\ Len(calls[w]) < Len(Chain)
        /\ Body(w)["plugin"] = Chain[Least(Matching(w))].name

\* C2: when a plugin fails on the payload and a later plugin is the first to
\* match it, the response is the success of the later plugin: its name, its
\* fields, and no "error".
C2_MatchReplacesError ==
    \A w \in Workers : ScanDone(w) =>
        \A i \in Erring(w), j \in Matching(w) :
            (i < j /\ j = Least(Matching(w))) =>
                /\ response[w].kind = "Response"
                /\ Body(w)["plugin"] = Chain[j].name
                /\ ~Has(Body(w), "error")
                /\ HoldsResultOf(w, j)

C2_Witness ==
    \E w \in Workers :
        /\ ScanDone(w)
        /\ \E i \in Erring(w) : i < Least(Matching(w) \cup {Len(Chain) + 1})
        /\ Matching(w) # {}
        /\ response[w].kind = "Response"
        /\ ~Has(Body(w), "error")

\* C3: when a plugin fails on the payload and none matches it, the call
\* fails with the error of the first failing plugin, with that plugin's name,
\* the payload and its hash.
C3_ErrorIsFailure ==
    \A w \in Workers : (ScanDone(w) /\ Matching(w) = {} /\ Erring(w) # {}) =>
        LET i == Least(Erring(w))
        IN  /\ response[w].kind = "ValidationError"
            /\ Body(w)["error"] = TheDict(scan(Chain[i], Payload(w)))["error"]
            /\ Body(w)["plugin"] = Chain[i].name
            /\ Body(w)["barcode_data"] = Payload(w)
            /\ Body(w)["barcode_hash"] = hash_barcode(Payload(w))

\* C4: when every plugin returns None for the payload, and also when there
\* is no plugin, the call fails with "No match found for barcode data", no
\* plugin name, and the payload.
C4_NoMatchFound ==
    /\ \A w \in Workers : (ScanDone(w) /\ Matching(w) = {} /\ Erring(w) = {}) =>
          /\ response[w].kind = "ValidationError"
          /\ Body(w)["error"] = "No match found for barcode data"
          /\ Body(w)["plugin"] = NoneStr
          /\ Body(w)["barcode_data"] = Payload(w)
          /\ ~Has(Body(w), "success")
    /\ \A b \in Payloads :
          LET r == ScanFinish(ScanLoop(<<>>, 1, b, ScanStart), b, hash_barcode(b))
          IN  /\ r.kind = "ValidationError"
              /\ r.body["error"] = "No match found for barcode data"
              /\ r.body["plugin"] = NoneStr
              /\ r.body["barcode_data"] = b

C4_Witness ==
    \E w \in Workers :
        /\ ScanDone(w)
        /\ Matching(w) = {} /\ Erring(w) = {}
        /\ Len(calls[w]) = Len(Chain)
        /\ response[w].kind = "ValidationError"

\* C5: every scan of a payload ends in one outcome, a response or a failure,
\* that holds the payload and the hash of the payload, whatever fields the
\* plugin's result held.
C5_PayloadAndHash ==
    \A w \in Workers : ScanDone(w) =>
        /\ response[w].kind \in {"Response", "ValidationError"}
        /\ Body(w)["barcode_data"] = Payload(w)
        /\ Body(w)["barcode_hash"] = hash_barcode(Payload(w))

C5_Witness ==
    \E w \in Workers :
        /\ ScanDone(w)
        /\ Matching(w) # {}
        /\ LET result == TheDict(scan(Chain[Least(Matching(w))], Payload(w)))
           IN  /\ Has(result, "barcode_hash")
               /\ result["barcode_hash"] # hash_barcode(Payload(w))
        /\ Body(w)["barcode_hash"] = hash_barcode(Payload(w))

----------------------------------------------------------------------------
\* BarcodeAssign and BarcodeUnassign

\* worker w takes up a BarcodeAssign request in this step
StartsAssign(w) ==
    /\ CanStart(w)
    /\ request'[w].view = "BarcodeAssign"
    /\ <<pc[w], request[w], response[w], calls[w]>>
          # <<pc'[w], request'[w], response'[w], calls'[w]>>

Bound(hash) == {e \in Instances : barcode_hash[e] = hash}

\* the failure BarcodeAssign raises when a builtin plugin knows the payload
MatchesExisting(r) ==
    /\ r.kind = "ValidationError"
    /\ Has(r.body, "error")
    /\ r.body["error"] = "Barcode matches existing item"

\* the label that decides the call and the instance it names
TargetLabel(w) == SupportedModels[FirstLabel(request[w].data)].label

Target(w) == <<TargetLabel(w), request[w].data[TargetLabel(w)]>>

MayChange(w) == check_table_permission(request[w].user, TableOf(TargetLabel(w)))

Mutations == {"assign_barcode", "unassign_barcode"}

Mutated(w) == \E k \in 1..Len(calls[w]) : calls[w][k][1] \in Mutations

\* worker w has answered a BarcodeAssign request that named a label and got
\* past the scan of the payload
AssignDonePastScan(w) ==
    /\ pc[w] = "done"
    /\ request[w].view = "BarcodeAssign"
    /\ ~Falsy(Payload(w))
    /\ ~MatchesExisting(response[w])
    /\ FirstLabel(request[w].data) # 0

\* worker w has answered a BarcodeUnassign request that named one label
UnassignDoneOneLabel(w) ==
    /\ pc[w] = "done"
    /\ request[w].view = "BarcodeUnassign"
    /\ Cardinality(MatchedLabels(request[w].data)) = 1

\* C6: no hash is the barcode_hash of two instances, whatever the
\* interleaving of the workers' steps.
C6_HashBoundOnce ==
    \A e1 \in Instances, e2 \in Instances :
        (e1 # e2 /\ barcode_hash[e1] # NoHash) => barcode_hash[e1] # barcode_hash[e2]

\* C7: with one request handled at a time, a BarcodeAssign of a payload whose
\* hash is assigned to an instance fails in its first step with "Barcode
\* matches existing item", named by the InvenTreeBarcode plugin, and changes
\* no binding.
C7_BoundPayloadRefused ==
    [][\A w \in Workers :
          (/\ StartsAssign(w)
           /\ ~Falsy(Payload(w)')
           /\ Bound(hash_barcode(Payload(w)')) # {})
          => /\ pc'[w] = "done"
             /\ MatchesExisting(response'[w])
             /\ response'[w].body["plugin"] = "InvenTreeBarcode"
             /\ barcode_hash' = barcode_hash]_vars

C7_Witness ==
    \E w \in Workers :
        /\ pc[w] = "done"
        /\ request[w].view = "BarcodeAssign"
        /\ MatchesExisting(response[w])
        /\ Body(w)["plugin"] = "InvenTreeBarcode"
        /\ FirstLabel(request[w].data) # 0
        /\ Target(w) \in Instances
        /\ MayChange(w)
        /\ Bound(hash_barcode(Payload(w))) # {}
        /\ Target(w) \notin Bound(hash_barcode(Payload(w)))

\* C8: a BarcodeAssign of a payload that a builtin plugin matches fails with
\* "Barcode matches existing item", names a plugin that matches the payload,
\* and makes no call but scans.
C8_MatchingPluginNamed ==
    [][\A w \in Workers :
          (/\ StartsAssign(w)
           /\ ~Falsy(Payload(w)')
           /\ \E i \in 1..Len(BuiltinChain) :
                 IsMatch(scan(BuiltinChain[i], Payload(w)')))
          => /\ pc'[w] = "done"
             /\ MatchesExisting(response'[w])
             /\ \E i \in 1..Len(BuiltinChain) :
                   /\ IsMatch(scan(BuiltinChain[i], Payload(w)'))
                   /\ response'[w].body["plugin"] = BuiltinChain[i].name
             /\ \A k \in 1..Len(calls'[w]) : calls'[w][k][1] = "scan"
             /\ barcode_hash' = barcode_hash]_vars

\* C9: a binding changes only in the mutation step of a worker whose user
\* may change the instance's table, right after the check of that
\* permission; and a BarcodeAssign or BarcodeUnassign that finds its
\* instance for a user who may not change the table ends in PermissionDenied
\* without a mutation.
C9_PermissionBeforeMutation ==
    [][/\ \A e \in Instances : barcode_hash'[e] # barcode_hash[e] =>
             \E w \in Workers :
                /\ pc[w] \in Mutations /\ pc'[w] = "done"
                /\ instance[w] = e
                /\ check_table_permission(request[w].user, TableOf(e[1]))
                /\ calls[w][Len(calls[w])] = <<"check_table_permission", TableOf(e[1])>>
       /\ \A w \in Workers :
             ((AssignDonePastScan(w) \/ UnassignDoneOneLabel(w))
                 /\ Target(w) \in Instances /\ ~MayChange(w))
             => (response[w].kind = "PermissionDenied" /\ ~Mutated(w))]_vars

C9_Witness ==
    \E w \in Workers :
        /\ AssignDonePastScan(w)
        /\ Target(w) \in Instances
        /\ ~MayChange(w)
        /\ response[w].kind = "PermissionDenied"
        /\ barcode_hash[Target(w)] # hash_barcode(Payload(w))

\* C10, as claimed: a BarcodeAssign that gets past the scan, for a user who
\* may not change the table of the label it names, ends in PermissionDenied
\* whether or not the key names an instance.
C10_PermissionWhateverKey ==
    \A w \in Workers : (AssignDonePastScan(w) /\ ~MayChange(w)) =>
        response[w].kind = "PermissionDenied"

\* C10, amended: for such a user the call ends in PermissionDenied when the
\* key names an instance, and in the validation error "No matching <label>
\* instance found in database" when it does not.
C10_LookupBeforePermission ==
    \A w \in Workers : (AssignDonePastScan(w) /\ ~MayChange(w)) =>
        IF Target(w) \in Instances
        THEN response[w].kind = "PermissionDenied"
        ELSE /\ response[w].kind = "ValidationError"
             /\ Body(w) = Put(EmptyDict, "error", NoMatchingInstance(TargetLabel(w)))

C10_Witness ==
    \E w \in Workers :
        /\ AssignDonePastScan(w)
        /\ ~MayChange(w)
        /\ Target(w)[2] \in IntKeys \ ExistingPks
        /\ response[w].kind = "ValidationError"

----------------------------------------------------------------------------
\* BarcodeUnassign: the labels of the request

\* the supported labels the data of w's request holds
LabelsIn(w) == {l \in Labels : Has(request[w].data, l)}

UnassignTaken(w) == request[w].view = "BarcodeUnassign"

Called(w, what) == \E k \in 1..Len(calls[w]) : calls[w][k][1] = what

\* C11: a BarcodeUnassign whose data holds two or more supported labels fails
\* with "Multiple conflicting fields" without a lookup or a mutation; one
\* whose data holds none fails with "Missing data"; unassign_barcode is
\* called only in a call whose data holds exactly one supported label.
C11_ConflictingLabels ==
    \A w \in Workers : UnassignTaken(w) =>
        /\ Cardinality(LabelsIn(w)) >= 2 =>
              /\ pc[w] = "done"
              /\ response[w] = ValidationError(Put(EmptyDict, "error",
                                   "Multiple conflicting fields: 'part, stockitem'"))
              /\ calls[w] = <<>>
        /\ Cardinality(LabelsIn(w)) = 0 =>
              /\ pc[w] = "done"
              /\ response[w] = ValidationError(Put(EmptyDict, "error",
                                   "Missing data: Provide one of 'part, stockitem'"))
              /\ calls[w] = <<>>
        /\ (Called(w, "unassign_barcode") \/ pc[w] = "unassign_barcode") =>
              Cardinality(LabelsIn(w)) = 1

C11_Witness ==
    \E w \in Workers :
        /\ UnassignTaken(w) /\ pc[w] = "done"
        /\ request[w].user = "alice"
        /\ \A l \in Labels : Has(request[w].data, l) /\ request[w].data[l] \in ExistingPks
        /\ \E e \in Instances : barcode_hash[e] # NoHash
        /\ response[w].kind = "ValidationError"
        /\ calls[w] = <<>>

----------------------------------------------------------------------------
\* BarcodePOReceive

SupplierChain == with_supplier_mixin

\* worker w has answered a BarcodePOReceive of a payload; with one worker
\* the bindings are still those the call saw
ReceiveDone(w) ==
    /\ pc[w] = "done"
    /\ request[w].view = "BarcodePOReceive"
    /\ ~Falsy(Payload(w))

\* the reference under key k is absent from w's request, or names a row
RefResolves(w, k) ==
    Has(request[w].data, k) => request[w].data[k] \in ExistingPks

RefsResolve(w) == RefResolves(w, "purchase_order") /\ RefResolves(w, "location")

\* C12: when the InvenTreeBarcode plugin returns a result for the payload,
\* no supplier plugin's scan_receive_item is called, and a call whose
\* purchase order and location references resolve fails with "Item has
\* already been received" right after the scan by the InvenTreeBarcode plugin.
C12_AlreadyReceived ==
    \A w \in Workers :
        (ReceiveDone(w) /\ scan(internal_barcode_plugin, Payload(w)) # None) =>
            /\ ~Called(w, "scan_receive_item")
            /\ RefsResolve(w) =>
                  /\ response[w] = ValidationError(
                         Put(EmptyDict, "error", "Item has already been received"))
                  /\ calls[w][Len(calls[w])] = <<"scan", "InvenTreeBarcode">>

C12_Witness ==
    \E w \in Workers :
        /\ ReceiveDone(w)
        /\ RefsResolve(w)
        /\ scan(internal_barcode_plugin, Payload(w)) # None
        /\ \E i \in 1..Len(SupplierChain) :
              IsMatch(scan_receive_item(SupplierChain[i], Payload(w)))
        /\ response[w].kind = "ValidationError"
        /\ Body(w)["error"] = "Item has already been received"

\* the reference under key k is in w's request and names no row
RefDangles(w, k) ==
    /\ Has(request[w].data, k)
    /\ request[w].data[k] \in IntKeys \ ExistingPks

HandlerCalls == {"scan", "scan_receive_item"}

\* C13: a BarcodePOReceive whose location reference names no stock location
\* (its purchase order reference, if any, resolving) fails with the
\* validation error "Invalid stock location", and calls no plugin.
C13_InvalidStockLocation ==
    \A w \in Workers :
        (ReceiveDone(w) /\ RefResolves(w, "purchase_order")
                        /\ RefDangles(w, "location")) =>
            /\ response[w] = ValidationError(
                   Put(EmptyDict, "location", "Invalid stock location"))
            /\ \A k \in 1..Len(calls[w]) : calls[w][k][1] \notin HandlerCalls

\* the positions in the supplier chain of the plugins whose scan_receive_item
\* matches, or fails on, the payload of w's request
Receiving(w) ==
    {i \in 1..Len(SupplierChain) :
        IsMatch(scan_receive_item(SupplierChain[i], Payload(w)))}

ReceiveErring(w) ==
    {i \in 1..Len(SupplierChain) :
        IsError(scan_receive_item(SupplierChain[i], Payload(w)))}

\* the fields BarcodePOReceive.post sets itself
ReceiveAttached == {"plugin", "barcode_data", "barcode_hash"}

ReceiveResult(w, i) == TheDict(scan_receive_item(SupplierChain[i], Payload(w)))

HoldsReceiveResultOf(w, i) ==
    \A k \in DOMAIN ReceiveResult(w, i) \ ReceiveAttached :
        Has(Body(w), k) /\ Body(w)[k] = ReceiveResult(w, i)[k]

\* the scan_receive_item calls of w's call, in order
ReceiveCalls(w) == SelectSeq(calls[w], LAMBDA c : c[1] = "scan_receive_item")

\* worker w has answered a BarcodePOReceive that got to the supplier plugins
ReceiveDonePastScan(w) ==
    /\ ReceiveDone(w)
    /\ RefsResolve(w)
    /\ scan(internal_barcode_plugin, Payload(w)) = None

\* C14: a BarcodePOReceive returns a success only when a supplier plugin's
\* scan_receive_item matched.  The supplier plugins are called in order up to
\* the first that matches, and the response is then a success with that
\* plugin's name and fields, whatever failed before it.  When none matches
\* the call fails: with the error and the name of the first plugin that
\* failed, or, when none failed, with "No match for supplier barcode" and no
\* plugin name.  The payload and its hash are attached in every case.
C14_SupplierChain ==
    \A w \in Workers :
        /\ (ReceiveDone(w) /\ response[w].kind = "Response") => Receiving(w) # {}
        /\ ReceiveDonePastScan(w) =>
              LET n == IF Receiving(w) = {} THEN Len(SupplierChain)
                       ELSE Least(Receiving(w))
              IN  /\ ReceiveCalls(w) =
                        [i \in 1..n |-> <<"scan_receive_item", SupplierChain[i].name>>]
                  /\ Body(w)["barcode_data"] = Payload(w)
                  /\ Body(w)["barcode_hash"] = hash_barcode(Payload(w))
                  /\ Receiving(w) # {} =>
                        /\ response[w].kind = "Response"
                        /\ Body(w)["plugin"] = SupplierChain[n].name
                        /\ ~Has(Body(w), "error")
                        /\ HoldsReceiveResultOf(w, n)
                  /\ (Receiving(w) = {} /\ ReceiveErring(w) # {}) =>
                        /\ response[w].kind = "ValidationError"
                        /\ Body(w)["plugin"] = SupplierChain[Least(ReceiveErring(w))].name
                        /\ HoldsReceiveResultOf(w, Least(ReceiveErring(w)))
                  /\ (Receiving(w) = {} /\ ReceiveErring(w) = {}) =>
                        /\ response[w].kind = "ValidationError"
                        /\ Body(w)["error"] = "No match for supplier barcode"
                        /\ Body(w)["plugin"] = NoneStr

C14_Witness ==
    \E w \in Workers :
        /\ ReceiveDonePastScan(w)
        /\ Receiving(w) = {}
        /\ Cardinality(ReceiveErring(w)) >= 2
        /\ Least(ReceiveErring(w)) > 1
        /\ response[w].kind = "ValidationError"
        /\ Body(w)["error"] = ReceiveResult(w, Least(ReceiveErring(w)))["error"]
        /\ Len(ReceiveCalls(w)) = Len(SupplierChain)

----------------------------------------------------------------------------
\* The payload check

PayloadViews == {"BarcodeScan", "BarcodeAssign", "BarcodePOReceive"}

\* the data of w's request hold no payload, or an empty one
NoPayload(w) ==
    ~Has(request[w].data, "barcode") \/ request[w].data["barcode"] = ""

\* C15: a BarcodeScan, BarcodeAssign or BarcodePOReceive whose request holds
\* no payload, or an empty one, fails at once with the validation error
\* "Missing barcode data": no plugin is called, and no row is looked up or
\* changed.
C15_MissingBarcodeData ==
    \A w \in Workers :
        (request[w].view \in PayloadViews /\ NoPayload(w)) =>
            /\ pc[w] = "done"
            /\ response[w] = ValidationError(
                   Put(EmptyDict, "barcode", "Missing barcode data"))
            /\ calls[w] = <<>>
            /\ instance[w] = NoInstance

C15_Witness ==
    \E w \in Workers :
        /\ request[w].view = "BarcodePOReceive"
        /\ Has(request[w].data, "barcode") /\ NoPayload(w)
        /\ RefDangles(w, "purchase_order")
        /\ \E e \in Instances : barcode_hash[e] # NoHash
        /\ response[w].kind = "ValidationError"
        /\ calls[w] = <<>>

----------------------------------------------------------------------------
\* BarcodeScan: several failing plugins

\* C16: when plugins fail on the payload and none matches it, the response
\* holds the error and the name of the first plugin, in chain order, that
\* failed, whatever later plugins returned; and the plugin after a failing
\* plugin is called all the same: every plugin of the chain is called.
C16_FirstErrorKept ==
    \A w \in Workers : (ScanDone(w) /\ Erring(w) # {}) =>
        /\ \A i \in Erring(w) :
              ((\A j \in Matching(w) : i < j) /\ i < Len(Chain)) =>
                  /\ Len(calls[w]) > i
                  /\ calls[w][i + 1] = <<"scan", Chain[i + 1].name>>
        /\ Matching(w) = {} =>
              LET i == Least(Erring(w))
              IN  /\ Body(w)["error"] = TheDict(scan(Chain[i], Payload(w)))["error"]
                  /\ Body(w)["plugin"] = Chain[i].name
                  /\ calls[w] = [k \in 1..Len(Chain) |-> <<"scan", Chain[k].name>>]

C16_Witness ==
    \E w \in Workers :
        /\ ScanDone(w)
        /\ Matching(w) = {}
        /\ Cardinality(Erring(w)) >= 2
        /\ Body(w)["plugin"] = Chain[Least(Erring(w))].name
        /\ Len(calls[w]) = Len(Chain)

----------------------------------------------------------------------------
\* BarcodeAssign: several labels

\* the labels of SupportedModels, in order, that the data of w's request hold
LabelsInOrder(w) ==
    SelectSeq([i \in 1..Len(SupportedModels) |-> SupportedModels[i].label],
              LAMBDA l : Has(request[w].data, l))

DecidingLabel(w) == LabelsInOrder(w)[1]

Deciding(w) == <<DecidingLabel(w), request[w].data[DecidingLabel(w)]>>

AssignTaken(w) == request[w].view = "BarcodeAssign"

\* a call of w about a label: a lookup or a mutation
AboutLabel(c) == c[1] \in {"get", "assign_barcode"}

\* C17: in a BarcodeAssign whose data hold several supported labels, the
\* first of them in the order of the supported models decides: the one
\* lookup and the one mutation of the call are those of that label, only the
\* instance it names is changed, and when its lookup or its permission
\* check fails the call fails without a look at a later label.
C17_FirstLabelDecides ==
    [][\A w \in Workers : (AssignTaken(w) /\ Len(LabelsInOrder(w)) >= 2) =>
          /\ \A k \in 1..Len(calls[w]) :
                AboutLabel(calls[w][k]) => calls[w][k][2] = DecidingLabel(w)
          /\ Len(SelectSeq(calls[w], AboutLabel)) <= 2
          /\ (pc[w] = "assign_barcode" /\ pc'[w] = "done") =>
                \A e \in Instances :
                    barcode_hash'[e] # barcode_hash[e] => e = Deciding(w)
          /\ (AssignDonePastScan(w) /\ Deciding(w) \notin Instances) =>
                response[w] = ValidationError(
                    Put(EmptyDict, "error", NoMatchingInstance(DecidingLabel(w))))
          /\ (AssignDonePastScan(w) /\ Deciding(w) \in Instances
                 /\ ~check_table_permission(request[w].user, TableOf(DecidingLabel(w)))) =>
                response[w].kind = "PermissionDenied"]_vars

C17_Witness ==
    \E w \in Workers :
        /\ AssignDonePastScan(w)
        /\ Len(LabelsInOrder(w)) >= 2
        /\ \A i \in 1..Len(LabelsInOrder(w)) :
              <<LabelsInOrder(w)[i], request[w].data[LabelsInOrder(w)[i]]>> \in Instances
        /\ ~check_table_permission(request[w].user, TableOf(DecidingLabel(w)))
        /\ check_table_permission(request[w].user, TableOf(LabelsInOrder(w)[2]))
        /\ response[w].kind = "PermissionDenied"
        /\ \A e \in Instances : barcode_hash[e] = NoHash

----------------------------------------------------------------------------
\* BarcodeAssign and BarcodeUnassign: what a call changes

BindingViews == {"BarcodeAssign", "BarcodeUnassign"}

\* worker w ends a call of BarcodeAssign or BarcodeUnassign in this step
Ends(w) ==
    /\ pc'[w] = "done"
    /\ request'[w].view \in BindingViews
    /\ <<pc[w], request[w], response[w], calls[w]>>
          # <<pc'[w], request'[w], response'[w], calls'[w]>>

\* C18: a step of a BarcodeAssign or BarcodeUnassign changes a binding only
\* when it ends the call in a success, and then only the binding of the one
\* instance the call names; a call that ends in a failure has made no
\* mutation, and the step that ends it leaves every binding as it was.
C18_FailureChangesNothing ==
    [][/\ barcode_hash' # barcode_hash =>
             \E w \in Workers :
                /\ Ends(w)
                /\ response'[w].kind = "Response"
                /\ Has(response'[w].body, "success")
                /\ \A e \in Instances \ {Target(w)} : barcode_hash'[e] = barcode_hash[e]
       /\ \A w \in Workers :
             (Ends(w) /\ response'[w].kind # "Response") =>
                /\ barcode_hash' = barcode_hash
                /\ \A k \in 1..Len(calls'[w]) : calls'[w][k][1] \notin Mutations]_vars

C18_Witness ==
    \E w \in Workers :
        /\ pc[w] = "done"
        /\ UnassignTaken(w)
        /\ Cardinality(LabelsIn(w)) = 1
        /\ Target(w) \in Instances
        /\ response[w].kind = "PermissionDenied"
        /\ barcode_hash[Target(w)] # NoHash

----------------------------------------------------------------------------
\* BarcodeAssign: a builtin plugin fails on the payload

\* the positions in the builtin chain of the plugins that return a result,
\* a match or an error, for payload b
Answering(b) == {i \in 1..Len(BuiltinChain) : scan(BuiltinChain[i], b) # None}

PastScan == {"assign_lookup", "assign_permission", "assign_barcode"}

----------------------------------------------------------------------------
\* BarcodeAssign, BarcodeUnassign, BarcodeAssign: the round trip

\* the last call of worker w was a BarcodeAssign that named one instance
AssignedTo(w) ==
    /\ pc[w] = "done"
    /\ AssignTaken(w)
    /\ ~Falsy(Payload(w))
    /\ FirstLabel(request[w].data) # 0
    /\ Target(w) \in Instances

\* the last call of u bound its payload to an instance that holds no barcode
\* any more, and the last call of v was a BarcodeAssign of the same payload
\* to another instance
RoundTrip(u, v) ==
    /\ u # v
    /\ AssignedTo(u) /\ response[u].kind = "Response"
    /\ barcode_hash[Target(u)] = NoHash
    /\ AssignedTo(v)
    /\ Payload(v) = Payload(u)
    /\ Target(v) # Target(u)

\* C20: with one call handled at a time, a successful BarcodeUnassign of an
\* instance leaves it without a barcode, and the payload it held, known to
\* the InvenTreeBarcode plugin before, gets no result from the builtin
\* plugins after; a BarcodeAssign of a payload that gets no such result goes
\* past the scan, and, naming an existing instance for a user who may change
\* it, succeeds, the payload then being bound to that instance only.
C20_RoundTrip ==
    [][/\ \A w \in Workers :
             (pc[w] = "unassign_barcode" /\ pc'[w] = "done") =>
                /\ response'[w].kind = "Response"
                /\ barcode_hash'[instance[w]] = NoHash
                /\ \A b \in Payloads :
                      barcode_hash[instance[w]] = hash_barcode(b) =>
                          /\ InternalScan(b) # None
                          /\ InternalScan(b)' = None
                          /\ Answering(b)' = {}
       /\ \A v \in Workers :
             (StartsAssign(v) /\ ~Falsy(Payload(v)') /\ Answering(Payload(v)') = {}) =>
                pc'[v] = "assign_lookup"
       /\ \A v \in Workers :
             (AssignDonePastScan(v) /\ Target(v) \in Instances /\ MayChange(v)) =>
                response[v] = Response(
                    Put(Put(Put(Put(EmptyDict, "success",
                                    AssignSuccess(TargetLabel(v))),
                                TargetLabel(v), [pk |-> Target(v)[2]]),
                            "barcode_data", Payload(v)),
                        "barcode_hash", hash_barcode(Payload(v))))
       /\ \A v \in Workers :
             (pc[v] = "assign_barcode" /\ pc'[v] = "done") =>
                Bound(hash_barcode(Payload(v)))' = {Target(v)}]_vars

C20_Witness ==
    \E u \in Workers, v \in Workers :
        /\ RoundTrip(u, v)
        /\ MayChange(v)
        /\ response[v].kind = "Response"
        /\ Bound(hash_barcode(Payload(v))) = {Target(v)}

====
